---- MODULE Spec2Model ----
(***************************************************************************)
(* aweb.py: a small asynchronous HTTP server.                              *)
(*   Web        the ordered route table (registration and lookup)          *)
(*   Flow       the per-connection request/response context                *)
(*   server     the per-connection dispatcher and its connection counter   *)
(* Text is modelled as a sequence of one-character strings, so that        *)
(* lower(), strip(), split(',') and startswith() are computed, not assumed.*)
(***************************************************************************)
EXTENDS Integers, Sequences, FiniteSets, TLC

(***************************************************************************)
(* Bounds of the model                                                     *)
(***************************************************************************)
\* most entries the route table holds in the router specification
MaxRoutes == 3
\* most iterations of the registration loop that are followed
MaxSpin == 2
\* connections (dispatcher tasks) that may be open at once
NConn == 2
\* server(..., limit=): the size limit of lines and bodies
Limit == 2
\* server(..., clients=): the largest connection ceiling that is configured
MaxClients == 1
\* most chunks a payload's generator produces
MaxChunks == 2
\* most times the body is read from the transport on one connection
MaxReads == 2
\* longest byte string handed to url_decode
MaxBytes == 3

VARIABLES
    web,      \* Web (a list): the route table, first entry scanned first
    regpc,    \* where Web.__call__'s decorator is: "ready" or "loop"
    reg,      \* the locals of the running decorator (order, i, n, ...)
    spins,    \* iterations of the decorator's while loop made so far
    qry,      \* the last Web.find call and what it returned
    clients,  \* server's clients argument: the connection ceiling
    clnt,     \* server's clnt: the in-flight connection counter
    cur,      \* the connection whose task is running, 0 when all are suspended
    pc,       \* per connection: where its dispatcher task is
    flow,     \* per connection: its Flow (path, method, content length, send)
    exc,      \* per connection: the exception the except clause re-raises
    seen,     \* per connection: how its admission check found clnt against clients
    n500,     \* per connection: fixed 500 responses written to its transport
    nrep,     \* per connection: errors printed by sys.print_exception
    log,      \* per connection: the stages it went through, in order
    out,      \* per connection: what its task wrote to the transport, and the
              \* drains that completed, in order
    fin,      \* per connection: where flow._finish() is, and the chunks the
              \* payload's generator has produced
    dec       \* the running url_decode call: its argument, locals and result

routerVars == <<regpc, reg, spins, qry>>
connVars == <<clients, clnt, cur, pc, flow, exc, seen, n500, nrep, log, out, fin>>
vars == <<web, regpc, reg, spins, qry, clients, clnt, cur, pc, flow, exc, seen, n500, nrep, log,
          out, fin, dec>>

(***************************************************************************)
(* Text primitives (str.lower, str.strip, str.split, str.startswith)       *)
(***************************************************************************)
LowerChar(c) ==
    CASE c = "A" -> "a"
      [] c = "B" -> "b"
      [] c = "E" -> "e"
      [] c = "G" -> "g"
      [] c = "O" -> "o"
      [] c = "P" -> "p"
      [] c = "S" -> "s"
      [] c = "T" -> "t"
      [] c = "U" -> "u"
      [] OTHER -> c

Lower(s) == [k \in 1..Len(s) |-> LowerChar(s[k])]

IsSpace(c) == c \in {" ", "\t"}

RECURSIVE LStrip(_)
LStrip(s) == IF s # <<>> /\ IsSpace(Head(s)) THEN LStrip(Tail(s)) ELSE s

RECURSIVE RStrip(_)
RStrip(s) ==
    IF s # <<>> /\ IsSpace(s[Len(s)]) THEN RStrip(SubSeq(s, 1, Len(s) - 1)) ELSE s

Strip(s) == RStrip(LStrip(s))

\* s.split(','): the pieces between commas, at least one piece
RECURSIVE SplitFrom(_, _, _)
SplitFrom(s, k, piece) ==
    IF k > Len(s) THEN <<piece>>
    ELSE IF s[k] = "," THEN <<piece>> \o SplitFrom(s, k + 1, <<>>)
    ELSE SplitFrom(s, k + 1, Append(piece, s[k]))

Split(s) == SplitFrom(s, 1, <<>>)

StartsWith(s, pre) == Len(pre) <= Len(s) /\ SubSeq(s, 1, Len(pre)) = pre

EndsWithStar(s) == s # <<>> /\ s[Len(s)] = "*"

(***************************************************************************)
(* Codec: url_decode.  A byte string is a sequence of byte values.         *)
(***************************************************************************)
B_pct   == 37      \* 0x25 '%'
B_paren == 40      \* 0x28 '('
B_plus  == 43      \* 0x2B '+'
B_space == 32      \* 0x20 ' '

\* the bytes the arguments of url_decode are made of: % ( + 1 4 a b
DecodeBytes == {B_pct, B_paren, B_plus, 49, 52, 97, 98}

\* the value of a hexadecimal digit, -1 for any other byte
HexDigit(t) ==
    CASE t \in 48..57  -> t - 48
      [] t \in 97..102 -> t - 87
      [] t \in 65..70  -> t - 55
      [] OTHER         -> -1

\* int(b[i+1:i+3], 16) of a two-byte slice: two hexadecimal digits, or a
\* sign and one digit; -1 when int() raises ValueError
Int16(h, l) ==
    IF HexDigit(l) < 0 THEN -1
    ELSE IF HexDigit(h) >= 0 THEN 16 * HexDigit(h) + HexDigit(l)
    ELSE IF h = B_plus THEN HexDigit(l)
    ELSE -1

\* if t==0x28: # +
IsPlus(t) == t = B_paren

Decoded(err, bytes) == [err |-> err, bytes |-> bytes]

\* the while loop of url_decode from index i (counted from 0) on, ret being
\* the bytearray built so far
RECURSIVE DecodeLoop(_, _, _)
DecodeLoop(b, i, ret) ==
    IF ~(i < Len(b)) THEN Decoded("none", ret)
    ELSE LET t == b[i + 1]
         IN  IF IsPlus(t) THEN DecodeLoop(b, i + 1, Append(ret, B_space))
             ELSE IF t = B_pct /\ i + 2 < Len(b)
                  THEN IF Int16(b[i + 2], b[i + 3]) < 0
                       THEN Decoded("ValueError", <<>>)
                       ELSE DecodeLoop(b, i + 3, Append(ret, Int16(b[i + 2], b[i + 3])))
                  ELSE DecodeLoop(b, i + 1, Append(ret, t))

\* ret.decode('utf-8'): of the bytes a %XX over DecodeBytes can give, those
\* from 0x80 on are continuation bytes, which no lead byte precedes
Utf8Decodes(bytes) == \A k \in 1..Len(bytes) : bytes[k] < 128

\* url_decode(b): the decoded text (as its code points) or the error raised
UrlDecode(b) ==
    LET r == DecodeLoop(b, 0, <<>>)
    IN  IF r.err # "none" THEN r
        ELSE IF Utf8Decodes(r.bytes) THEN r
        ELSE Decoded("UnicodeError", <<>>)

\* no call of url_decode is being followed
NoDecode == [st |-> "none", arg |-> <<>>, ret |-> Decoded("none", <<>>)]

(***************************************************************************)
(* Inputs of the router: the texts handed to Web.__call__ and Web.find     *)
(***************************************************************************)
T_get    == <<"g", "e", "t">>
T_post   == <<"p", "o", "s", "t">>
T_put    == <<"p", "u", "t">>
T_before == <<":", "b", "e", "f", "o", "r", "e">>
T_after  == <<":", "a", "f", "t", "e", "r">>

\* path patterns given to the decorator; a trailing '*' is the wildcard
PathPatterns ==
    { <<"*">>, <<"a">>, <<"A", "*">>, <<"a", "B">>, <<"a", "b", "*">> }

\* method arguments given to the decorator (the default is 'get,post')
MethodSpecs ==
    { T_get,
      <<"G", "E", "T", ",", " ">> \o T_post,
      T_after }

\* paths and methods given to find
FindPaths ==
    { <<>>, <<"a">>, <<"A", "B">>, <<"a", "b", "b">>, <<"b">> }

FindMethods == { <<"G", "E", "T">>, T_post, T_put, <<>>, T_after }

(***************************************************************************)
(* Web: the route table.  An entry is the tuple                            *)
(*   (order, path, method, wildcard, func, args, kwargs)                   *)
(* of the source; args and kwargs are carried along untouched and left     *)
(* out.  func is the decorated function: the k-th decorated function is k. *)
(***************************************************************************)
Entry(order, p, m, wc, func) ==
    [order |-> order, path |-> p, method |-> m, wc |-> wc, func |-> func]

\* p=path.lower(); if p.endswith('*'): p=p[:-1]
PatternPath(path) ==
    LET p == Lower(path)
    IN  IF EndsWithStar(p) THEN SubSeq(p, 1, Len(p) - 1) ELSE p

PatternWild(path) == EndsWithStar(Lower(path))

\* order=(len(p)<<2)+(0 if wc else 1)
OrderOf(p, wc) == (Len(p) * 4) + (IF wc THEN 0 ELSE 1)

\* while i<n: if self[i][0]<=order: break     (i stays 0: it is never advanced)
\* the loop is left at once when the table is empty or its first entry's
\* order is at most the new one, and is never left otherwise
LoopLeaves(tbl, i, n, order) == IF i < n THEN tbl[i + 1].order <= order ELSE TRUE

\* list.append(x) in place of list.insert(i, x)
InsertAtEnd(tbl, i, x) == Append(tbl, x)

\* list.insert(i, x), i counted from 0
InsertAt(tbl, i, x) == SubSeq(tbl, 1, i) \o <<x>> \o SubSeq(tbl, i + 1, Len(tbl))

\* for m in method.split(','): self.insert(i, (order, p, m.strip().lower(), ...))
RECURSIVE InsertAll(_, _, _, _, _, _, _)
InsertAll(tbl, i, ms, order, p, wc, func) ==
    IF ms = <<>> THEN tbl
    ELSE InsertAll(InsertAt(tbl, i, Entry(order, p, Lower(Strip(Head(ms))), wc, func)),
                   i, Tail(ms), order, p, wc, func)

\* a reversed scan: the last entry in table order that matches
RECURSIVE FindFromLast(_, _, _, _)
FindFromLast(tbl, p, m, k) ==
    IF k > Len(tbl) THEN 0
    ELSE LET later == FindFromLast(tbl, p, m, k + 1)
         IN  IF later # 0 THEN later
             ELSE IF (tbl[k].path = p \/ (tbl[k].wc /\ StartsWith(p, tbl[k].path)))
                     /\ tbl[k].method = m
                  THEN k
                  ELSE 0

\* find: the first entry in table order that matches, 0 for None
RECURSIVE FindFrom(_, _, _, _)
FindFrom(tbl, p, m, k) ==
    IF k > Len(tbl) THEN 0
    ELSE IF (tbl[k].path = p \/ (tbl[k].wc /\ StartsWith(p, tbl[k].path)))
            /\ tbl[k].method = m
         THEN k
         ELSE FindFrom(tbl, p, m, k + 1)

\* p=path.lower() if path else '';  m=method.lower() if method else 'get'
FindPath(path) == IF path # <<>> THEN Lower(path) ELSE <<>>
FindMethod(method) == IF method # <<>> THEN Lower(method) ELSE T_get

FindIdx(tbl, path, method) == FindFrom(tbl, FindPath(path), FindMethod(method), 1)

NoQuery == [path |-> <<>>, method |-> <<>>, idx |-> -1]
NoReg == [order |-> 0, i |-> 0, n |-> 0]

(***************************************************************************)
(* The router's operations                                                 *)
(***************************************************************************)
Conns == 1..NConn

\* a Flow before _start has set anything: no path, no Content-Length (-1),
\* no send attribute (payload), no recv attribute (received body), no status,
\* reason, tail (headers) or _setcookie; nread counts the reads of the body
\* from the transport, hit tells that an accessor has returned the cached recv
NoFlow ==
    [path |-> <<>>, method |-> <<>>, clen |-> -1, send |-> "unset", recv |-> "unset",
     status |-> 0, reason |-> "", tail |-> {}, cookies |-> {},
     text |-> <<>>, obj |-> <<>>, nread |-> 0, hit |-> FALSE]

\* flow._finish() has not begun
NoFin == [at |-> "none", made |-> <<>>]

\* no connection has been accepted
ConnsIdle ==
    /\ clients \in 0..MaxClients
    /\ clnt = 0
    /\ cur = 0
    /\ pc = [c \in Conns |-> "idle"]
    /\ flow = [c \in Conns |-> NoFlow]
    /\ exc = [c \in Conns |-> "none"]
    /\ seen = [c \in Conns |-> "unset"]
    /\ n500 = [c \in Conns |-> 0]
    /\ nrep = [c \in Conns |-> 0]
    /\ log = [c \in Conns |-> <<>>]
    /\ out = [c \in Conns |-> <<>>]
    /\ fin = [c \in Conns |-> NoFin]
    /\ dec = NoDecode

RouterIdle ==
    /\ regpc = "ready"
    /\ reg = NoReg
    /\ spins = 0
    /\ qry = NoQuery

RouterInit ==
    /\ web = <<>>
    /\ RouterIdle
    /\ ConnsIdle
    /\ clients = MaxClients

\* @web(path, method) def f(flow): ...   when the decorator's loop is left
Register(path, mspec) ==
    LET p     == PatternPath(path)
        wc    == PatternWild(path)
        order == OrderOf(p, wc)
        ms    == Split(mspec)
        func  == Len(web) + 1
    IN  /\ regpc = "ready"
        /\ Len(web) + Len(ms) <= MaxRoutes
        /\ LoopLeaves(web, 0, Len(web), order)
        /\ web' = InsertAll(web, 0, ms, order, p, wc, func)
        /\ qry' = NoQuery
        /\ UNCHANGED <<regpc, reg, spins, connVars, dec>>

\* the same call when the loop's test fails: the decorator stays in the loop
RegisterEnterLoop(path) ==
    LET p     == PatternPath(path)
        wc    == PatternWild(path)
        order == OrderOf(p, wc)
    IN  /\ regpc = "ready"
        /\ ~LoopLeaves(web, 0, Len(web), order)
        /\ regpc' = "loop"
        /\ reg' = [order |-> order, i |-> 0, n |-> Len(web)]
        /\ spins' = 1
        /\ qry' = NoQuery
        /\ UNCHANGED <<web, connVars, dec>>

\* one more iteration of the loop: nothing has changed, so its test fails
\* again (the iterations are counted up to MaxSpin and then from 1 again)
RegisterSpin ==
    /\ regpc = "loop"
    /\ ~LoopLeaves(web, reg.i, reg.n, reg.order)
    /\ spins' = IF spins < MaxSpin THEN spins + 1 ELSE 1
    /\ UNCHANGED <<web, regpc, reg, qry, connVars, dec>>

\* web.find(path, method)
Find(path, method) ==
    /\ regpc = "ready"
    /\ qry' = [path |-> path, method |-> method, idx |-> FindIdx(web, path, method)]
    /\ UNCHANGED <<web, regpc, reg, spins, connVars, dec>>

RouterNext ==
    \/ \E path \in PathPatterns, mspec \in MethodSpecs : Register(path, mspec)
    \/ \E path \in PathPatterns : RegisterEnterLoop(path)
    \/ RegisterSpin
    \/ \E path \in FindPaths, method \in FindMethods : Find(path, method)

SpecRouter == RouterInit /\ [][RouterNext]_vars

(***************************************************************************)
(* server: one dispatcher task per accepted connection.                    *)
(*                                                                         *)
(* A task runs without interruption from one await to the next (one event  *)
(* loop, cooperative scheduling): cur names the task that is between two   *)
(* awaits, and no other task moves until it suspends.  The awaits are      *)
(*   "start"     await flow._start()          (reading the request)        *)
(*   "before_w"  await coro of the :before hook                            *)
(*   "main_w"    await coro of the main handler                            *)
(*   "after_w"   await coro of the :after hook                             *)
(*   "err"       await w.drain() after the fixed 500 response              *)
(*   "finish"    await resp.drain() inside flow._finish()                  *)
(*   "closing"   await w.wait_closed()                                     *)
(* and "before", "main", "after", "respond" are the places in between.     *)
(***************************************************************************)
Hooks == {"before", "main", "after"}
Awaits == {"start", "before_w", "main_w", "after_w", "err", "finish", "closing"}

\* the name a stage carries in the log
StageName(st) ==
    CASE st = "before" -> "BEFORE"
      [] st = "main"   -> "MAIN"
      [] st = "after"  -> "AFTER"

WaitOf(st) ==
    CASE st = "before" -> "before_w"
      [] st = "main"   -> "main_w"
      [] st = "after"  -> "after_w"

StageOfWait(w) ==
    CASE w = "before_w" -> "before"
      [] w = "main_w"   -> "main"
      [] w = "after_w"  -> "after"

\* the statement that follows a stage of the inner try block
NextStage(st) ==
    CASE st = "before" -> "main"
      [] st = "main"   -> "after"
      [] st = "after"  -> "respond"

Event(ev, func, f) == [ev |-> ev, func |-> func, path |-> f.path, send |-> f.send]

\* if clnt<=clients:
AdmitStrict(n) == n < clients

Admit(n) == n <= clients

\* if exe:=web.find(flow.path, ':before')
BeforeExe(f) == FindIdx(web, f.path, T_before)

\* the main handler looked up whatever flow.send is
MainExeAlways(f) == FindIdx(web, f.path, f.method)

\* if not hasattr(flow, 'send') and (exe:=web.find(flow.path, flow.method))
MainExe(f) == IF f.send = "unset" THEN FindIdx(web, f.path, f.method) ELSE 0

\* the :after hook looked up only while flow.send is unset
AfterExeUnset(f) == IF f.send = "unset" THEN FindIdx(web, f.path, T_after) ELSE 0

\* if exe:=web.find(flow.path, ':after')
AfterExe(f) == FindIdx(web, f.path, T_after)

StageExe(st, f) ==
    CASE st = "before" -> BeforeExe(f)
      [] st = "main"   -> MainExe(f)
      [] st = "after"  -> AfterExe(f)

\* the outer try without its except OSError clause
ReportedWithOSError(kind) == kind \notin {"none", "CancelledError"}

\* except OSError: pass / except asyncio.CancelledError: pass /
\* except Exception as e: sys.print_exception(e)
Reported(kind) == kind \notin {"none", "OSError", "CancelledError"}

\* readallb without the test of the declared length
ReadAllUnchecked(f) == FALSE

\* Flow.readallb with a declared Content-Length: raises before reading
\* when int(t)>self.limit
ReadAllRaises(f) == f.clen # -1 /\ f.clen > Limit

(***************************************************************************)
(* Flow: the response fields and the send_* helpers.  tail (a dict) is the *)
(* set of its (name, value) items; a text is a sequence of characters or   *)
(* of whole words; an object (dict, or list of pairs) is the sequence of   *)
(* its [k, v] items.                                                       *)
(***************************************************************************)
CT_text == "text/plain; charset=utf-8"
CT_json == "application/json; charset=utf-8"
CT_form == "application/x-www-form-urlencoded; charset=utf-8"
CT_file == "text/html; charset=utf-8"

\* self.tail[k]=v
SetHeader(t, k, v) == {h \in t : h[1] # k} \cup {<<k, v>>}

\* send_text(str, status=, reason=)
SendText(f, str, status, reason) ==
    [f EXCEPT !.tail = SetHeader(@, "Content-Type", CT_text),
              !.send = "text", !.text = str, !.status = status, !.reason = reason]

\* send_redirect(url): Location, 302, REDIR; self.send is not touched
SendRedirect(f, url) ==
    [f EXCEPT !.tail = SetHeader(@, "Location", url), !.status = 302, !.reason = "REDIR"]

\* send_json(obj): obj a dict (kind "dict") or a list (kind "list")
SendJson(f, kind, obj) ==
    [f EXCEPT !.tail = SetHeader(SetHeader(@, "Content-Type", CT_json),
                                 "Cache-Control", "no-store"),
              !.send = kind, !.obj = obj, !.status = 200, !.reason = "OK"]

\* send_form(obj)
SendForm(f, kind, obj) ==
    [f EXCEPT !.tail = SetHeader(SetHeader(@, "Content-Type", CT_form),
                                 "Cache-Control", "no-store"),
              !.send = kind, !.obj = obj, !.status = 200, !.reason = "OK"]

\* send_file('x.html'): the payload is the generator _send_file(file)
SendFile(f, status, reason) ==
    [f EXCEPT !.tail = SetHeader(SetHeader(@, "Content-Type", CT_file),
                                 "Cache-Control", "public, max-age=86400"),
              !.send = "gen", !.status = status, !.reason = reason]

\* flow.send=generator   (an asynchronous generator, as in the module's example)
SendAsyncGen(f) == [f EXCEPT !.send = "agen"]

\* set_cookie(name, value)
SetCookie(f, name) == [f EXCEPT !.cookies = @ \cup {name}]

\* the object handed to send_json and send_form: {'k': 'a ', '': 'v'} as a
\* dict, [('k', 'a '), ('', 'v')] as a list
Pair(k, v) == [k |-> k, v |-> v]
Obj == << Pair(<<"k">>, <<"a", " ">>), Pair(<<>>, <<"v">>) >>

\* url_encode of one character: letters and - . / _ ~ are kept
UrlEncodeChar(ch) ==
    CASE ch = " " -> <<"%", "2", "0">>
      [] ch = "=" -> <<"%", "3", "D">>
      [] ch = "1" -> <<"%", "3", "1">>
      [] OTHER    -> <<ch>>

RECURSIVE UrlEncode(_)
UrlEncode(str) == IF str = <<>> THEN <<>> ELSE UrlEncodeChar(Head(str)) \o UrlEncode(Tail(str))

\* param_encode(ret, l): items with an empty key are left out, '&' between
RECURSIVE ParamEncode(_, _)
ParamEncode(ret, l) ==
    IF l = <<>> THEN ret
    ELSE IF Head(l).k = <<>> THEN ParamEncode(ret, Tail(l))
    ELSE ParamEncode((IF Len(ret) > 0 THEN ret \o <<"&">> ELSE ret)
                         \o UrlEncode(Head(l).k) \o <<"=">> \o UrlEncode(Head(l).v),
                     Tail(l))

JsonString(str) == <<"\"">> \o str \o <<"\"">>

\* the items of json.dumps(obj, separators=(',', ':')): "k":"v" in a dict,
\* ["k","v"] in a list
RECURSIVE JsonItems(_, _)
JsonItems(kind, l) ==
    IF l = <<>> THEN <<>>
    ELSE (IF kind = "dict"
          THEN JsonString(Head(l).k) \o <<":">> \o JsonString(Head(l).v)
          ELSE <<"[">> \o JsonString(Head(l).k) \o <<",">> \o JsonString(Head(l).v) \o <<"]">>)
         \o (IF Len(l) > 1 THEN <<",">> ELSE <<>>) \o JsonItems(kind, Tail(l))

JsonDumps(kind, l) ==
    IF kind = "dict" THEN <<"{">> \o JsonItems(kind, l) \o <<"}">>
    ELSE <<"[">> \o JsonItems(kind, l) \o <<"]">>

(***************************************************************************)
(* Flow._finish: what it writes.  A write is a record with w = "status",   *)
(* "headers", "cookies", "blank" or "body"; a completed await of drain()   *)
(* is the record with w = "drain".                                         *)
(***************************************************************************)
StatusLine(status, reason) ==
    [w |-> "status", ver |-> "HTTP/1.0", status |-> status, reason |-> reason]
Headers(t) == [w |-> "headers", tail |-> t]
Cookies(ck) == [w |-> "cookies", names |-> ck]
Blank == [w |-> "blank"]
Body(bytes) == [w |-> "body", bytes |-> bytes]
Drain == [w |-> "drain"]

\* the default body set without its status and reason
Default404KeepsStatus(f) ==
    IF f.send = "unset"
    THEN [f EXCEPT !.send = "text", !.text = <<"!!! NOT FOUND !!!">>,
                   !.tail = SetHeader(@, "Content-Type", CT_text)]
    ELSE f

\* if not hasattr(self, 'send'): self.send='!!! NOT FOUND !!!'; 404; 'NOROUTER';
\* Content-Type text/plain
Default404(f) ==
    IF f.send = "unset"
    THEN [f EXCEPT !.send = "text", !.text = <<"!!! NOT FOUND !!!">>,
                   !.status = 404, !.reason = "NOROUTER",
                   !.tail = SetHeader(@, "Content-Type", CT_text)]
    ELSE f

\* the status line and the tail headers
HeadWrites(f) == << StatusLine(f.status, f.reason), Headers(f.tail) >>

\* the Set-Cookie lines and the blank line
BlankWrites(f) == (IF f.cookies = {} THEN <<>> ELSE << Cookies(f.cookies) >>) \o << Blank >>

\* the payloads written with one write: str and bytes as they are, a dict
\* as compact JSON, a list or tuple through param_encode
OneWrite == {"text", "bytes", "dict", "list"}
Chunked == {"agen", "gen"}

BodyBytes(f) ==
    CASE f.send \in {"text", "bytes"} -> f.text
      [] f.send = "dict"              -> JsonDumps("dict", f.obj)
      [] f.send = "list"              -> ParamEncode(<<>>, f.obj)

\* a chunk written while the drain of the one before has not been awaited
ChunkStepUnflushed(o, v) == o \o << Body(v) >>

\* await resp.drain() returns, the next v is taken from send, resp.write(v)
ChunkStep(o, v) == o \o << Drain, Body(v) >>

\* the chunks a generator payload yields
ChunkVals == { <<"x">>, <<"y">> }

\* b'HTTP/1.0 500 INTERR\r\nContent-Type: text/plain; charset=utf-8\r\n\r\n!!! Internal Error !!!'
Resp500 ==
    << StatusLine(500, "INTERR"), Headers({<<"Content-Type", CT_text>>}), Blank,
       Body(<<"!!! Internal Error !!!">>) >>

(***************************************************************************)
(* What a hook or handler does between two awaits: an effect on the Flow   *)
(* and the way the piece of code ends.                                     *)
(*   effects   "none"                                                      *)
(*             "send"     a send_* helper or flow.send=... sets a payload  *)
(*             "path"     flow.path is rewritten (as in the module's       *)
(*                        example hook)                                    *)
(*             "readall"  recv_json or recv_form is called: the cached     *)
(*                        recv if there is one, else Flow.readallb         *)
(*   endings   "return", "suspend" (an await inside the handler),          *)
(*             "Exception", "OSError" (raised)                             *)
(***************************************************************************)
Effects == {"none", "send", "path", "readall"}
SendEffects == {"send", "lost", "redirect", "json_dict", "json_list", "form_list",
                "file", "agen", "cookie"}
RecvEffects == {"readall", "readform", "stream"}
Endings == {"return", "suspend", "Exception", "OSError"}

RewritePath(p) == IF p = <<"a">> THEN <<"b">> ELSE <<"a">>

\* recv_json / recv_form: if not hasattr(self, 'recv'): t=await self.readallb()
ReadsBody(f, eff) == eff \in {"readall", "readform"} /\ f.recv = "unset"

\* an accessor without the hasattr test: it reads whatever recv is
AccessorRereads(f, eff) ==
    IF eff = "stream" THEN [f EXCEPT !.recv = "stream"]
    ELSE IF ReadAllRaises(f) THEN f
    ELSE [f EXCEPT !.recv = IF eff = "readall" THEN "reading" ELSE "readingf",
                   !.nread = @ + 1]

\* a body accessor called on f: recv_json ("readall"), recv_form
\* ("readform") or recv_bytes ("stream")
Accessor(f, eff) ==
    IF f.recv # "unset" THEN [f EXCEPT !.hit = TRUE]
    ELSE IF eff = "stream" THEN [f EXCEPT !.recv = "stream"]
    ELSE IF ReadAllRaises(f) THEN f
    ELSE [f EXCEPT !.recv = IF eff = "readall" THEN "reading" ELSE "readingf",
                   !.nread = @ + 1]

ApplyEffect(f, eff) ==
    CASE eff = "send"      -> SendText(f, <<"hello">>, 200, "OK")
      [] eff = "lost"      -> SendText(f, <<"lost">>, 404, "LOST")
      [] eff = "redirect"  -> SendRedirect(f, "/x")
      [] eff = "json_dict" -> SendJson(f, "dict", Obj)
      [] eff = "json_list" -> SendJson(f, "list", Obj)
      [] eff = "form_list" -> SendForm(f, "list", Obj)
      [] eff = "file"      -> SendFile(f, 200, "OK")
      [] eff = "agen"      -> SendAsyncGen(f)
      [] eff = "cookie"    -> SetCookie(f, "user")
      [] eff = "path"      -> [f EXCEPT !.path = RewritePath(f.path)]
      [] eff \in RecvEffects -> Accessor(f, eff)
      [] OTHER             -> f

\* readallb either raises MemoryError at once or awaits the transport
EndingOf(f, eff, ending) ==
    IF ReadsBody(f, eff)
    THEN IF ReadAllRaises(f) THEN "MemoryError" ELSE "suspend"
    ELSE ending

\* the awaited read of the body ends: self.recv is set unless the read or
\* the decoding raised
AfterRead(f, ending) ==
    CASE f.recv = "reading" ->
            [f EXCEPT !.recv = IF ending \in {"return", "suspend"} THEN "body" ELSE "unset"]
      [] f.recv = "readingf" ->
            [f EXCEPT !.recv = IF ending \in {"return", "suspend"} THEN "form" ELSE "unset"]
      [] OTHER -> f

\* what recv is after an accessor's read (why = "read") or decoding (why =
\* "decode") raised: recv_json sets self.recv last, recv_form sets
\* self.recv=[] before param_decode fills it
AfterRaise(f, why) ==
    IF f.recv = "readingf" /\ why = "decode"
    THEN [f EXCEPT !.recv = "form"]
    ELSE [f EXCEPT !.recv = "unset"]

\* except: w.write(b'HTTP/1.0 500 INTERR...'); await w.drain()
Raise500(c, kind) ==
    /\ out' = [out EXCEPT ![c] = @ \o Resp500]
    /\ n500' = [n500 EXCEPT ![c] = @ + 1]
    /\ exc' = [exc EXCEPT ![c] = kind]
    /\ pc' = [pc EXCEPT ![c] = "err"]
    /\ log' = [log EXCEPT ![c] = Append(@, Event("E500", 0, flow[c]))]
    /\ cur' = 0

\* the counter taken back only when the try block ends without an exception
LeaveTryNoFinally(c, kind) ==
    /\ nrep' = [nrep EXCEPT ![c] = IF Reported(kind) THEN @ + 1 ELSE @]
    /\ clnt' = IF kind = "none" THEN clnt - 1 ELSE clnt
    /\ log' = [log EXCEPT ![c] = Append(@, Event("CLOSE", 0, flow[c]))]
    /\ pc' = [pc EXCEPT ![c] = "closing"]
    /\ cur' = 0

\* the outer try is left with exception kind ("none": without one):
\* the except clauses, finally: clnt=clnt-1, then w.close() and the await
\* of w.wait_closed()
LeaveTry(c, kind) ==
    /\ nrep' = [nrep EXCEPT ![c] = IF Reported(kind) THEN @ + 1 ELSE @]
    /\ clnt' = clnt - 1
    /\ log' = [log EXCEPT ![c] = Append(@, Event("CLOSE", 0, flow[c]))]
    /\ pc' = [pc EXCEPT ![c] = "closing"]
    /\ cur' = 0

\* the same with clnt=clnt+1 placed after await flow._start(): the check
\* does not see the connections that are still reading their request
AcceptCountsLate(c) ==
    /\ pc[c] = "idle"
    /\ cur = 0
    /\ seen' = [seen EXCEPT ![c] = IF clnt > clients THEN "above" ELSE "within"]
    /\ IF Admit(Cardinality({d \in Conns : pc[d] \notin {"idle", "start", "closing", "done"}}))
       THEN /\ clnt' = clnt + 1
            /\ pc' = [pc EXCEPT ![c] = "start"]
            /\ log' = [log EXCEPT ![c] = Append(@, Event("DISPATCH", 0, flow[c]))]
       ELSE /\ clnt' = clnt
            /\ pc' = [pc EXCEPT ![c] = "closing"]
            /\ log' = [log EXCEPT ![c] = Append(@, Event("CLOSE", 0, flow[c]))]
    /\ UNCHANGED <<web, routerVars, dec, clients, cur, flow, exc, n500, nrep, out, fin>>

\* a new connection: the task starts, checks the counter, and either builds
\* its Flow, counts itself and awaits _start, or goes straight to w.close()
Accept(c) ==
    /\ pc[c] = "idle"
    /\ cur = 0
    /\ seen' = [seen EXCEPT ![c] = IF clnt > clients THEN "above" ELSE "within"]
    /\ IF Admit(clnt)
       THEN /\ clnt' = clnt + 1
            /\ pc' = [pc EXCEPT ![c] = "start"]
            /\ log' = [log EXCEPT ![c] = Append(@, Event("DISPATCH", 0, flow[c]))]
       ELSE /\ clnt' = clnt
            /\ pc' = [pc EXCEPT ![c] = "closing"]
            /\ log' = [log EXCEPT ![c] = Append(@, Event("CLOSE", 0, flow[c]))]
    /\ UNCHANGED <<web, routerVars, dec, clients, cur, flow, exc, n500, nrep, out, fin>>

\* flow._start() returns: method and path lowercased, headers read,
\* status 200, no send attribute
StartOk(c, req) ==
    /\ pc[c] = "start"
    /\ cur = 0
    /\ flow' = [flow EXCEPT ![c] = [NoFlow EXCEPT !.path = Lower(req.path),
                                                   !.method = Lower(req.method),
                                                   !.clen = req.clen,
                                                   !.status = 200,
                                                   !.reason = "OK",
                                                   !.tail = {<<"Connection", "Close">>}]]
    /\ log' = [log EXCEPT ![c] = Append(@, Event("PARSE", 0, flow'[c]))]
    /\ pc' = [pc EXCEPT ![c] = "before"]
    /\ cur' = c
    /\ UNCHANGED <<web, routerVars, dec, clients, clnt, exc, seen, n500, nrep, out, fin>>

\* flow._start() raises: ValueError('Bad protocol'), MemoryError('Out of
\* limit size') from readlineb, or OSError from the transport
StartRaise(c, kind) ==
    /\ pc[c] = "start"
    /\ cur = 0
    /\ Raise500(c, kind)
    /\ UNCHANGED <<web, routerVars, dec, clients, clnt, flow, seen, nrep, fin>>

\* the same with an await that does not give the event loop back
PieceBlocking(c, st, f1, ending) ==
    /\ flow' = [flow EXCEPT ![c] = f1]
    /\ CASE ending = "return" ->
              /\ pc' = [pc EXCEPT ![c] = NextStage(st)]
              /\ cur' = c
              /\ UNCHANGED <<exc, n500, out>>
         [] ending = "suspend" ->
              /\ pc' = [pc EXCEPT ![c] = WaitOf(st)]
              /\ cur' = c
              /\ UNCHANGED <<exc, n500, out>>
         [] OTHER ->
              /\ n500' = [n500 EXCEPT ![c] = @ + 1]
              /\ out' = [out EXCEPT ![c] = @ \o Resp500]
              /\ exc' = [exc EXCEPT ![c] = ending]
              /\ pc' = [pc EXCEPT ![c] = "err"]
              /\ cur' = 0

\* a piece of a hook or handler has run, left the Flow as f1 and ended:
\* it returned (the next statement follows), it awaits (the task is
\* suspended), or it raised (the bare except writes the 500 response)
Piece(c, st, f1, ending) ==
    /\ flow' = [flow EXCEPT ![c] = f1]
    /\ CASE ending = "return" ->
              /\ pc' = [pc EXCEPT ![c] = NextStage(st)]
              /\ cur' = c
              /\ UNCHANGED <<exc, n500, out>>
         [] ending = "suspend" ->
              /\ pc' = [pc EXCEPT ![c] = WaitOf(st)]
              /\ cur' = 0
              /\ UNCHANGED <<exc, n500, out>>
         [] OTHER ->
              /\ n500' = [n500 EXCEPT ![c] = @ + 1]
              /\ out' = [out EXCEPT ![c] = @ \o Resp500]
              /\ exc' = [exc EXCEPT ![c] = ending]
              /\ pc' = [pc EXCEPT ![c] = "err"]
              /\ cur' = 0

\* a stage whose lookup finds nothing (or, for the main handler, whose
\* lookup is not made because flow.send is set): nothing is called
Skip(c) ==
    /\ pc[c] \in Hooks
    /\ cur = c
    /\ StageExe(pc[c], flow[c]) = 0
    /\ log' = [log EXCEPT ![c] = Append(@, Event(StageName(pc[c]), 0, flow[c]))]
    /\ pc' = [pc EXCEPT ![c] = NextStage(pc[c])]
    /\ UNCHANGED <<web, routerVars, dec, clients, clnt, cur, flow, exc, seen, n500, nrep, out, fin>>

\* coro=exe[4](flow, ...) and, for a coroutine, the start of await coro
Invoke(c, eff, ending) ==
    /\ pc[c] \in Hooks
    /\ cur = c
    /\ StageExe(pc[c], flow[c]) # 0
    /\ ReadsBody(flow[c], eff) => flow[c].nread < MaxReads
    /\ LET e == EndingOf(flow[c], eff, ending)
           ev == Event(StageName(pc[c]), StageExe(pc[c], flow[c]), flow[c])
       IN  /\ Piece(c, pc[c], ApplyEffect(flow[c], eff), e)
           /\ log' = [log EXCEPT ![c] =
                        IF e \in {"return", "suspend"} THEN Append(@, ev)
                        ELSE Append(Append(@, ev), Event("E500", 0, flow'[c]))]
    /\ UNCHANGED <<web, routerVars, dec, clients, clnt, seen, nrep, fin>>

\* the awaited coroutine goes on after its await
Resume(c, eff, ending) ==
    /\ pc[c] \in {"before_w", "main_w", "after_w"}
    /\ cur = 0
    /\ ReadsBody(AfterRead(flow[c], ending), eff) => flow[c].nread < MaxReads
    /\ LET f0 == AfterRead(flow[c], ending)
           e == EndingOf(f0, eff, ending)
       IN  /\ Piece(c, StageOfWait(pc[c]), ApplyEffect(f0, eff), e)
           /\ log' = [log EXCEPT ![c] =
                        IF e \in {"return", "suspend"} THEN @
                        ELSE Append(@, Event("E500", 0, flow'[c]))]
    /\ UNCHANGED <<web, routerVars, dec, clients, clnt, seen, nrep, fin>>

\* else: await flow._finish()  up to its first await: the default 404 when
\* there is no send, the status line and the headers
Respond(c) ==
    /\ pc[c] = "respond"
    /\ cur = c
    /\ flow' = [flow EXCEPT ![c] = Default404(@)]
    /\ out' = [out EXCEPT ![c] = @ \o HeadWrites(flow'[c])]
    /\ fin' = [fin EXCEPT ![c].at = "head"]
    /\ log' = [log EXCEPT ![c] = Append(@, Event("RESPOND", 0, flow[c]))]
    /\ pc' = [pc EXCEPT ![c] = "finish"]
    /\ cur' = 0
    /\ UNCHANGED <<web, routerVars, dec, clients, clnt, exc, seen, n500, nrep>>

\* an await resp.drain() of flow._finish() returns and _finish goes on to
\* its next await: the cookies and the blank line; the body of a payload
\* written at once; the next chunk v of a generator payload (for an
\* asynchronous generator the await of its __anext__ comes in between)
FinishNext(c, v) ==
    /\ pc[c] = "finish"
    /\ cur = 0
    /\ CASE fin[c].at = "head" ->
              /\ out' = [out EXCEPT ![c] = @ \o << Drain >> \o BlankWrites(flow[c])]
              /\ fin' = [fin EXCEPT ![c].at = "blank"]
         [] fin[c].at = "blank" /\ flow[c].send \in OneWrite ->
              /\ out' = [out EXCEPT ![c] = @ \o << Drain, Body(BodyBytes(flow[c])) >>]
              /\ fin' = [fin EXCEPT ![c].at = "body"]
         [] fin[c].at \in {"blank", "chunk"} /\ flow[c].send \in Chunked ->
              /\ Len(fin[c].made) < MaxChunks
              /\ out' = [out EXCEPT ![c] = ChunkStep(@, v)]
              /\ fin' = [fin EXCEPT ![c] = [at |-> "chunk", made |-> Append(@.made, v)]]
         [] OTHER -> FALSE
    /\ UNCHANGED <<web, routerVars, dec, clients, clnt, cur, pc, flow, exc, seen, n500, nrep, log>>

\* flow._finish() has nothing more to write when its drain returns: the
\* body is out, or the generator is exhausted, or send is of no kind that
\* _finish writes
FinishEnds(c) ==
    \/ fin[c].at = "body"
    \/ fin[c].at \in {"blank", "chunk"} /\ flow[c].send \in Chunked
    \/ fin[c].at = "blank" /\ flow[c].send \notin (OneWrite \cup Chunked)

\* flow._finish() ends: it returns, or a write fails (OSError), or it
\* raises something else
FinishDone(c, how) ==
    /\ pc[c] = "finish"
    /\ cur = 0
    /\ how = "none" => FinishEnds(c)
    /\ out' = [out EXCEPT ![c] = IF how = "none" THEN Append(@, Drain) ELSE @]
    /\ LeaveTry(c, how)
    /\ UNCHANGED <<web, routerVars, dec, clients, flow, exc, seen, n500, fin>>

\* the same without the raise: control falls through to flow._finish()
ErrDrainedResponds(c, how) ==
    /\ pc[c] = "err"
    /\ cur = 0
    /\ pc' = [pc EXCEPT ![c] = "respond"]
    /\ cur' = c
    /\ UNCHANGED <<web, routerVars, dec, clients, clnt, flow, exc, seen, n500, nrep, log, out, fin>>

\* the drain after the 500 response ends and the exception is re-raised
\* (raise), or the drain itself fails with OSError
ErrDrained(c, how) ==
    /\ pc[c] = "err"
    /\ cur = 0
    /\ out' = [out EXCEPT ![c] = IF how = "none" THEN Append(@, Drain) ELSE @]
    /\ LeaveTry(c, IF how = "none" THEN exc[c] ELSE how)
    /\ UNCHANGED <<web, routerVars, dec, clients, flow, exc, seen, n500, fin>>

\* the task is cancelled and the cancellation is thrown into it at its
\* await but is not caught: the task ends where it is
CancelUncaught(c) ==
    /\ pc[c] \in Awaits
    /\ cur = 0
    /\ pc' = [pc EXCEPT ![c] = "done"]
    /\ UNCHANGED <<web, routerVars, dec, clients, clnt, cur, flow, exc, seen, n500, nrep, log, out, fin>>

\* task.cancel(): CancelledError is thrown into the task at its await.
\* Inside the inner try the bare except writes the 500 response; in the
\* except clause or in _finish the outer except discards it; at
\* wait_closed the last bare except discards it
Cancel(c) ==
    /\ pc[c] \in Awaits
    /\ cur = 0
    /\ CASE pc[c] \in {"start", "before_w", "main_w", "after_w"} ->
              /\ Raise500(c, "CancelledError")
              /\ UNCHANGED <<clnt, nrep>>
         [] pc[c] \in {"err", "finish"} ->
              /\ LeaveTry(c, "CancelledError")
              /\ UNCHANGED <<exc, n500, out>>
         [] pc[c] = "closing" ->
              /\ pc' = [pc EXCEPT ![c] = "done"]
              /\ UNCHANGED <<clnt, cur, exc, n500, nrep, log, out>>
    /\ UNCHANGED <<web, routerVars, dec, clients, flow, seen, fin>>

\* await w.wait_closed() ends (an error in it is discarded): the task is over
Closed(c) ==
    /\ pc[c] = "closing"
    /\ cur = 0
    /\ pc' = [pc EXCEPT ![c] = "done"]
    /\ UNCHANGED <<web, routerVars, dec, clients, clnt, cur, flow, exc, seen, n500, nrep, log, out, fin>>

\* the read or the decoding of an awaited recv_json / recv_form raises and
\* the hook or handler catches the exception and awaits something else
ReadCaught(c, why) ==
    /\ pc[c] \in {"before_w", "main_w", "after_w"}
    /\ cur = 0
    /\ flow[c].recv \in {"reading", "readingf"}
    /\ flow' = [flow EXCEPT ![c] = AfterRaise(@, why)]
    /\ UNCHANGED <<web, routerVars, dec, clients, clnt, cur, pc, exc, seen, n500, nrep, log, out, fin>>

(***************************************************************************)
(* Requests and route tables of the server specifications                  *)
(***************************************************************************)
Request(method, path, clen) == [method |-> method, path |-> path, clen |-> clen]

\* request line and Content-Length header as received (-1: no header)
Requests ==
    { Request(m, p, n) : m \in {<<"G", "E", "T">>, T_post},
                         p \in {<<"a">>, <<"B">>},
                         n \in {-1, Limit, Limit + 1} }

PlainRequest == Request(<<"G", "E", "T">>, <<"a">>, -1)

\* Web.__call__ as a function of the table, for calls that return
RegisterOp(tbl, path, mspec) ==
    InsertAll(tbl, 0, Split(mspec), OrderOf(PatternPath(path), PatternWild(path)),
              PatternPath(path), PatternWild(path), Len(tbl) + 1)

\* @web('*', ':after')  @web('a*', ':before')  @web('a', 'get')
HookTable ==
    RegisterOp(RegisterOp(RegisterOp(<<>>, <<"*">>, T_after),
                          <<"a", "*">>, T_before),
               <<"a">>, T_get)

\* @web('a')      (method 'get,post', no hooks)
PlainTable == RegisterOp(<<>>, <<"a">>, T_get \o <<",">> \o T_post)

ServerTables == {HookTable, PlainTable}

\* the inputs a specification lets the environment and the handlers choose
FullInputs ==
    [reqs  |-> Requests,
     effs  |-> Effects,
     ends  |-> Endings,
     kinds |-> {"ValueError", "MemoryError", "OSError"},
     hows  |-> {"none", "OSError", "Exception"}]

PlainInputs ==
    [reqs  |-> {PlainRequest},
     effs  |-> {"send"},
     ends  |-> {"return", "suspend", "Exception"},
     kinds |-> {"ValueError"},
     hows  |-> {"none", "OSError"}]

Step(c, in) ==
    \/ Accept(c)
    \/ \E req \in in.reqs : StartOk(c, req)
    \/ \E kind \in in.kinds : StartRaise(c, kind)
    \/ Skip(c)
    \/ \E eff \in in.effs, ending \in in.ends : Invoke(c, eff, ending)
    \/ \E eff \in in.effs, ending \in in.ends : Resume(c, eff, ending)
    \/ Respond(c)
    \/ \E v \in ChunkVals : FinishNext(c, v)
    \/ \E how \in in.hows : FinishDone(c, how)
    \/ \E how \in {"none", "OSError"} : ErrDrained(c, how)
    \/ Cancel(c)
    \/ Closed(c)

\* one connection, every request and every handler behaviour
ServerInit ==
    /\ web \in ServerTables
    /\ RouterIdle
    /\ ConnsIdle

ServerNext == Step(1, FullInputs)

SpecServer == ServerInit /\ [][ServerNext]_vars

\* one connection whose hooks and handler use the send_* helpers
SendInputs ==
    [reqs  |-> {PlainRequest, Request(T_post, <<"a">>, -1)},
     effs  |-> {"none"} \cup SendEffects,
     ends  |-> {"return", "suspend", "Exception"},
     kinds |-> {"ValueError"},
     hows  |-> {"none", "OSError"}]

SendNext == Step(1, SendInputs)

SpecSend == ServerInit /\ [][SendNext]_vars

\* one connection whose hooks and handler use the body accessors
RecvInputs ==
    [reqs  |-> {Request(T_get, <<"a">>, -1), Request(T_get, <<"a">>, Limit)},
     effs  |-> {"none"} \cup RecvEffects,
     ends  |-> {"return", "suspend", "Exception"},
     kinds |-> {"ValueError"},
     hows  |-> {"none"}]

RecvNext ==
    \/ Step(1, RecvInputs)
    \/ \E why \in {"read", "decode"} : ReadCaught(1, why)

SpecRecv == ServerInit /\ [][RecvNext]_vars

\* NConn connections at once, each with the plain request and handler
ConcInit ==
    /\ web = PlainTable
    /\ RouterIdle
    /\ ConnsIdle

ConcNext == \E c \in Conns : Step(c, PlainInputs)

SpecConc == ConcInit /\ [][ConcNext]_vars

\* the code of a task between two awaits: it runs on until the next await
Sync(c) ==
    \/ Skip(c)
    \/ \E eff \in PlainInputs.effs, ending \in PlainInputs.ends : Invoke(c, eff, ending)
    \/ Respond(c)

\* an await of the task ends: the awaited read, write, coroutine or close
\* completes or fails
Awaited(c) ==
    \/ \E req \in PlainInputs.reqs : StartOk(c, req)
    \/ \E kind \in PlainInputs.kinds : StartRaise(c, kind)
    \/ \E eff \in PlainInputs.effs, ending \in PlainInputs.ends : Resume(c, eff, ending)
    \/ \E v \in ChunkVals : FinishNext(c, v)
    \/ \E how \in PlainInputs.hows : FinishDone(c, how)
    \/ \E how \in {"none", "OSError"} : ErrDrained(c, how)
    \/ Closed(c)

\* every task runs on between awaits, and every await of every connection
\* ends at some time
FairConc ==
    SpecConc /\ \A c \in Conns : WF_vars(Sync(c)) /\ WF_vars(Awaited(c))

\* the same, except that the awaits of connection 1 need never end (its
\* handler is slow, or is never resumed)
FairOthers ==
    /\ SpecConc
    /\ \A c \in Conns : WF_vars(Sync(c))
    /\ \A c \in Conns \ {1} : WF_vars(Awaited(c))

\* the registration loop goes on as long as its test lets it
FairRouter == SpecRouter /\ WF_vars(RouterNext)

\* the byte strings of at most n bytes over DecodeBytes
ByteStrings(n) == UNION { [1..k -> DecodeBytes] : k \in 0..n }

\* url_decode is called with b
CodecInit ==
    /\ web = <<>>
    /\ RouterIdle
    /\ clients = MaxClients
    /\ clnt = 0
    /\ cur = 0
    /\ pc = [c \in Conns |-> "idle"]
    /\ flow = [c \in Conns |-> NoFlow]
    /\ exc = [c \in Conns |-> "none"]
    /\ seen = [c \in Conns |-> "unset"]
    /\ n500 = [c \in Conns |-> 0]
    /\ nrep = [c \in Conns |-> 0]
    /\ log = [c \in Conns |-> <<>>]
    /\ out = [c \in Conns |-> <<>>]
    /\ fin = [c \in Conns |-> NoFin]
    /\ \E b \in ByteStrings(MaxBytes) : dec = [st |-> "called", arg |-> b, ret |-> Decoded("none", <<>>)]

\* url_decode returns or raises
Decode ==
    /\ dec.st = "called"
    /\ dec' = [dec EXCEPT !.st = "done", !.ret = UrlDecode(dec.arg)]
    /\ UNCHANGED <<web, routerVars, connVars>>

SpecCodec == CodecInit /\ [][Decode]_vars

(***************************************************************************)
(* Properties of the router                                                *)
(***************************************************************************)
QueryMade == qry.idx >= 0

\* the entries that qualify for path p and method m, both already folded
Qualifying(p, m) ==
    { k \in 1..Len(web) :
        /\ web[k].method = m
        /\ (web[k].path = p \/ (web[k].wc /\ StartsWith(p, web[k].path))) }

\* k is a longest qualifying entry, and no wildcard when an equally long
\* qualifying entry is not one
Longest(Q, k) ==
    /\ k \in Q
    /\ \A j \in Q :
          /\ Len(web[j].path) <= Len(web[k].path)
          /\ (Len(web[j].path) = Len(web[k].path) /\ ~web[j].wc) => ~web[k].wc

FindAnswers(Q) == IF Q = {} THEN qry.idx = 0 ELSE Longest(Q, qry.idx)

\* C9 as stated: among the entries whose method equals the lowercased request
\* method and whose prefix equals the lowercased path or (wildcard entries) is
\* a prefix of it, find returns one with the longest prefix, the non-wildcard
\* one first at equal length, and no-match exactly when no entry qualifies.
C9_FindLongestAsStated ==
    QueryMade => FindAnswers(Qualifying(Lower(qry.path), Lower(qry.method)))

\* C9 amended: the same, an empty (absent) request method counting as 'get'.
C9_FindLongest ==
    QueryMade =>
        FindAnswers(Qualifying(Lower(qry.path),
                               IF qry.method = <<>> THEN T_get ELSE Lower(qry.method)))

\* a lookup that had to choose: a shorter qualifying wildcard, an equally long
\* qualifying wildcard, and the non-wildcard entry that was returned
C9_Witness ==
    /\ qry.idx > 0
    /\ ~web[qry.idx].wc
    /\ LET Q == Qualifying(Lower(qry.path), Lower(qry.method))
       IN  /\ \E j \in Q : web[j].wc /\ Len(web[j].path) = Len(web[qry.idx].path)
           /\ \E j \in Q : Len(web[j].path) < Len(web[qry.idx].path)

\* the table is in non-increasing order, every order is 4*len(prefix) plus
\* one for a non-wildcard, and at equal order the later decorated function
\* comes first
TableSorted ==
    /\ \A k \in 1..Len(web) :
          web[k].order = 4 * Len(web[k].path) + (IF web[k].wc THEN 0 ELSE 1)
    /\ \A k \in 1..(Len(web) - 1) :
          \/ web[k].order > web[k + 1].order
          \/ web[k].order = web[k + 1].order /\ web[k].func >= web[k + 1].func

\* a registration puts its entries, as one block, after every entry of
\* strictly greater order and immediately before the first entry whose
\* order is less than or equal to theirs, and moves no other entry
PlacedBeforeFirstNotGreater ==
    web' # web =>
        LET cnt == Len(web') - Len(web)
        IN  /\ cnt >= 1
            /\ \E pos \in 0..Len(web) :
                  /\ SubSeq(web', 1, pos) = SubSeq(web, 1, pos)
                  /\ SubSeq(web', pos + cnt + 1, Len(web')) = SubSeq(web, pos + 1, Len(web))
                  /\ \A j \in (pos + 1)..(pos + cnt) :
                        /\ web'[j].order = web'[pos + 1].order
                        /\ web'[j].func = Len(web) + 1
                  /\ \A k \in 1..pos : web[k].order > web'[pos + 1].order
                  /\ pos < Len(web) => web[pos + 1].order <= web'[pos + 1].order

Has(c, ev) == \E k \in 1..Len(log[c]) : log[c][k].ev = ev

\* the hook or handler of stage ev was called on connection c
Ran(c, ev) == \E k \in 1..Len(log[c]) : log[c][k].ev = ev /\ log[c][k].func > 0

EvNames(c) == [k \in 1..Len(log[c]) |-> log[c][k].ev]

Rank(ev) ==
    CASE ev = "DISPATCH" -> 0
      [] ev = "PARSE"    -> 1
      [] ev = "BEFORE"   -> 2
      [] ev = "MAIN"     -> 3
      [] ev = "AFTER"    -> 4
      [] ev = "RESPOND"  -> 5
      [] ev = "E500"     -> 6
      [] ev = "CLOSE"    -> 7

\* C1 as stated: on a connection whose request declares a Content-Length
\* above the limit no hook or handler ever runs (it fails during PARSE).
C1_FailsInParseAsStated ==
    \A c \in Conns :
        flow[c].clen > Limit => ~(Ran(c, "BEFORE") \/ Ran(c, "MAIN") \/ Ran(c, "AFTER"))

\* C1 amended: a declared Content-Length above the limit does not fail
\* PARSE; the resource-exceeded error is raised when a hook or handler asks
\* for the whole body (recv_json, recv_form), inside that stage, and before
\* anything of the body is read.
C1_FailsAtBodyAccess ==
    \A c \in Conns :
        flow[c].clen > Limit =>
            /\ Has(c, "PARSE")
            /\ flow[c].recv \notin {"reading", "body"}
            /\ exc[c] = "MemoryError" =>
                  \E k \in 2..Len(log[c]) :
                      /\ log[c][k].ev = "E500"
                      /\ log[c][k - 1].ev \in {"BEFORE", "MAIN", "AFTER"}
                      /\ log[c][k - 1].func > 0

\* the :before hook ran, and the main handler then failed with the
\* resource-exceeded error on a request declaring too long a body
C1_Witness ==
    \E c \in Conns :
        /\ flow[c].clen > Limit
        /\ exc[c] = "MemoryError"
        /\ Ran(c, "BEFORE")
        /\ Ran(c, "MAIN")
        /\ pc[c] = "done"

\* C2: without a raise the stages come in the order PARSE, :before, main,
\* :after, RESPOND, CLOSE; the main handler is the entry find(path, method)
\* returns and is called only when no payload is set at the end of :before.
C2_StageOrder ==
    \A c \in Conns :
        /\ \A k \in 1..(Len(log[c]) - 1) : Rank(log[c][k].ev) < Rank(log[c][k + 1].ev)
        /\ Has(c, "RESPOND") =>
              SubSeq(EvNames(c), 1, 6)
                  = <<"DISPATCH", "PARSE", "BEFORE", "MAIN", "AFTER", "RESPOND">>
        /\ (Has(c, "RESPOND") /\ pc[c] \in {"closing", "done"}) =>
              EvNames(c)
                  = <<"DISPATCH", "PARSE", "BEFORE", "MAIN", "AFTER", "RESPOND", "CLOSE">>
        /\ \A k \in 1..Len(log[c]) :
              (log[c][k].ev = "MAIN" /\ log[c][k].func > 0) =>
                  /\ log[c][k].send = "unset"
                  /\ log[c][k].func = FindIdx(web, log[c][k].path, flow[c].method)

\* a finished connection on which the :before hook set a payload and the
\* main handler, though registered for the path and method, was not called
C2_Witness ==
    \E c \in Conns :
        /\ pc[c] = "done"
        /\ Has(c, "RESPOND")
        /\ Ran(c, "BEFORE")
        /\ \E k \in 1..Len(log[c]) :
              /\ log[c][k].ev = "MAIN"
              /\ log[c][k].func = 0
              /\ log[c][k].send # "unset"
              /\ FindIdx(web, log[c][k].path, flow[c].method) # 0

\* C3 as stated (its last part): the :after hook, when the table has a
\* matching entry, runs on every connection that passed PARSE, whatever the
\* :before hook and main handler did.
C3_AfterAlwaysAsStated ==
    \A c \in Conns :
        (pc[c] \in {"closing", "done"} /\ Has(c, "PARSE")
            /\ FindIdx(web, flow[c].path, T_after) # 0) => Ran(c, "AFTER")

\* C3 amended: each hook stage calls the entry find gives for the path and
\* ':before' (':after'), whatever the payload and the request method; the
\* :before stage is reached by every connection that passed PARSE, and the
\* :after stage by every one on which no earlier stage raised or was
\* cancelled.
C3_HooksRun ==
    \A c \in Conns :
        /\ \A k \in 1..Len(log[c]) :
              /\ log[c][k].ev = "BEFORE" =>
                    log[c][k].func = FindIdx(web, log[c][k].path, T_before)
              /\ log[c][k].ev = "AFTER" =>
                    log[c][k].func = FindIdx(web, log[c][k].path, T_after)
        /\ (Has(c, "PARSE") /\ pc[c] # "before") => Has(c, "BEFORE")
        /\ (Has(c, "PARSE") /\ ~Has(c, "E500")
              /\ pc[c] \in {"respond", "finish", "closing", "done"}) => Has(c, "AFTER")

\* the :after hook was called with a payload already set, on a POST request
\* for which no main handler is registered
C3_Witness ==
    \E c \in Conns :
        /\ flow[c].method = T_post
        /\ \E k \in 1..Len(log[c]) :
              /\ log[c][k].ev = "AFTER"
              /\ log[c][k].func > 0
              /\ log[c][k].send # "unset"
        /\ Ran(c, "BEFORE")
        /\ pc[c] = "done"

\* C4: once PARSE or a hook or handler has raised, the Flow is never
\* serialized: only CLOSE follows, the fixed 500 response is written exactly
\* once, and no connection gets both a 500 response and a Flow response.
C4_ErrorSkipsRespond ==
    \A c \in Conns :
        /\ n500[c] <= 1
        /\ ~(n500[c] > 0 /\ Has(c, "RESPOND"))
        /\ (exc[c] # "none") = (n500[c] = 1)
        /\ (exc[c] # "none") = Has(c, "E500")
        /\ \A k \in 1..Len(log[c]) :
              log[c][k].ev = "E500" =>
                  \A j \in (k + 1)..Len(log[c]) : log[c][j].ev = "CLOSE"

\* the main handler raised after the :before hook had set nothing, and the
\* connection ended with the one 500 response
C4_Witness ==
    \E c \in Conns :
        /\ pc[c] = "done"
        /\ exc[c] = "Exception"
        /\ Ran(c, "MAIN")
        /\ n500[c] = 1
        /\ ~Has(c, "AFTER")

Last(q) == q[Len(q)]

\* a task that has started never goes back to waiting for its connection,
\* and a task that has ended stays ended
TaskOnward ==
    \A c \in Conns :
        /\ pc[c] # "idle" => pc'[c] # "idle"
        /\ pc[c] = "done" => pc'[c] = "done"

\* every connection accepted so far has ended, with CLOSE the last thing
\* its task did
AllClosed ==
    \A c \in Conns :
        pc[c] # "idle" => (pc[c] = "done" /\ Last(log[c]).ev = "CLOSE")

\* C5: every accepted connection ends with its transport closed: w.close()
\* and the await of w.wait_closed() are the last thing its task does, after
\* a response, an error in parse, hook or handler, an error while writing,
\* or a cancellation at any await.  As a started task stays started and an
\* ended one stays ended, "each accepted connection comes to its CLOSE" is
\* "from some time on, all the accepted ones have".
C5_AlwaysClosed ==
    /\ <>[]AllClosed
    /\ [][TaskOnward]_vars

\* a connection cancelled while its handler was suspended, closed all the same
C5_Witness ==
    \E c \in Conns :
        /\ pc[c] = "done"
        /\ exc[c] = "CancelledError"
        /\ Ran(c, "MAIN")
        /\ Last(log[c]).ev = "CLOSE"

\* C6 as stated: a connection accepted while the counter is above the
\* ceiling is still dispatched.
C6_NeverRefusedAsStated ==
    \A c \in Conns : seen[c] = "above" => Has(c, "DISPATCH")

\* C6 amended: a connection accepted while the counter is above the ceiling
\* is refused: it is closed without being parsed, routed or answered; one
\* accepted while the counter is at or below the ceiling is dispatched.
C6_RefusedAboveCeiling ==
    \A c \in Conns :
        seen[c] # "unset" =>
            IF seen[c] = "above"
            THEN /\ EvNames(c) = <<"CLOSE">>
                 /\ n500[c] = 0
                 /\ flow[c] = NoFlow
                 /\ pc[c] \in {"closing", "done"}
            ELSE Has(c, "DISPATCH")

\* a connection refused above the ceiling while another, admitted within
\* it, is in dispatch and the counter stands just above the ceiling
C6_Witness ==
    \E c, d \in Conns :
        /\ seen[c] = "above"
        /\ pc[c] = "done"
        /\ seen[d] = "within"
        /\ clnt = clients + 1
        /\ pc[d] \in {"start", "main_w", "finish"}

InTry == {"start", "before", "before_w", "main", "main_w", "after", "after_w",
          "respond", "err", "finish"}

\* C7: the counter is raised once when a connection is dispatched and
\* lowered once when its dispatch ends (the finally clause, which the close
\* of the transport follows), whether by success, error or cancellation: it
\* is the number of dispatched connections whose dispatch has not ended, is
\* never negative, and is 0 when all connections have finished.
C7_CounterExact ==
    /\ clnt = Cardinality({c \in Conns : pc[c] \in InTry})
    /\ clnt >= 0
    /\ \A c \in Conns : Has(c, "DISPATCH") = (pc[c] \in InTry \/ seen[c] = "within")
    /\ (\A c \in Conns : pc[c] \in {"idle", "done"}) => clnt = 0

\* all connections finished, one by cancellation, one by an error and the
\* counter back at 0
C7_Witness ==
    /\ clnt = 0
    /\ \A c \in Conns : pc[c] = "done"
    /\ \E c \in Conns : exc[c] = "CancelledError"
    /\ \E c \in Conns : exc[c] \in {"ValueError", "Exception"} \/ Has(c, "RESPOND")

\* a step that changes the Flow or the log of a connection leaves every
\* other connection as it is
OwnFlowOnly ==
    \A c \in Conns :
        (flow'[c] # flow[c] \/ log'[c] # log[c]) =>
            \A d \in Conns \ {c} :
                /\ flow'[d] = flow[d]
                /\ log'[d] = log[d]
                /\ pc'[d] = pc[d]

\* every accepted connection other than connection 1 has ended, after its
\* response, its own error or its refusal
OthersAnswered ==
    \A c \in Conns \ {1} :
        pc[c] # "idle" =>
            /\ pc[c] = "done"
            /\ Has(c, "RESPOND") \/ Has(c, "E500") \/ seen[c] = "above"

\* C8: a connection whose handler is slow or never resumes keeps no other
\* connection from completing: every other connection, its own awaits
\* ending, gets to its response (or its own error, or its refusal) and to
\* CLOSE; and no task touches the Flow of another connection.  Tasks never
\* start over (TaskOnward), so "each of the others completes" is "from some
\* time on, all the accepted others have".
C8_OthersComplete ==
    /\ <>[]OthersAnswered
    /\ [][OwnFlowOnly]_vars

\* connection 2 has been answered and closed while the handler of
\* connection 1 is still suspended
C8_Witness ==
    /\ pc[1] = "main_w"
    /\ pc[2] = "done"
    /\ Has(2, "RESPOND")
    /\ seen[1] = "within"
    /\ seen[2] = "within"

(***************************************************************************)
(* Properties of the serializer (Flow._finish) and of the fixed response   *)
(***************************************************************************)
\* the payload descriptor flow._finish() found on connection c
SendAtRespond(c) ==
    IF Has(c, "RESPOND")
    THEN LET k == CHOOSE k \in 1..Len(log[c]) : log[c][k].ev = "RESPOND"
         IN  log[c][k].send
    ELSE "none"

\* the bodies written on connection c, in order
RECURSIVE Bodies(_)
Bodies(o) ==
    IF o = <<>> THEN <<>>
    ELSE (IF Head(o).w = "body" THEN << Head(o).bytes >> ELSE <<>>) \o Bodies(Tail(o))

Kinds(o) == [k \in 1..Len(o) |-> o[k].w]

\* the response of connection c starts with this status line and carries
\* this Content-Type
StartsAs(c, status, reason, ctype) ==
    /\ Len(out[c]) >= 2
    /\ out[c][1] = StatusLine(status, reason)
    /\ out[c][2].w = "headers"
    /\ <<"Content-Type", ctype>> \in out[c][2].tail

\* C11 as stated: when serialization starts with no payload set, the
\* response has status 404, reason NOT FOUND and a plain-text body.
C11_NotFoundAsStated ==
    \A c \in Conns :
        (Has(c, "RESPOND") /\ SendAtRespond(c) = "unset") =>
            StartsAs(c, 404, "NOT FOUND", CT_text)

\* when the payload is set, _finish leaves the Flow as it is and writes its
\* status and reason
SetPayloadKept ==
    \A c \in Conns :
        (pc[c] = "respond" /\ pc'[c] = "finish" /\ flow[c].send # "unset") =>
            /\ flow'[c] = flow[c]
            /\ out'[c] = << StatusLine(flow[c].status, flow[c].reason), Headers(flow[c].tail) >>

\* C11 amended: when serialization starts with no payload set, the response
\* has status 404, reason NOROUTER, Content-Type text/plain and the body
\* '!!! NOT FOUND !!!'; when a payload is set (by the :after hook or before
\* it), that payload goes out with the status and reason set with it.
C11_NotFoundDefault ==
    /\ [](\A c \in Conns :
            Has(c, "RESPOND") =>
                IF SendAtRespond(c) = "unset"
                THEN /\ StartsAs(c, 404, "NOROUTER", CT_text)
                     /\ Bodies(out[c]) \in { <<>>, << <<"!!! NOT FOUND !!!">> >> }
                     /\ pc[c] = "done" /\ Last(out[c]) = Drain
                            => Bodies(out[c]) = << <<"!!! NOT FOUND !!!">> >>
                ELSE /\ out[c][1] = StatusLine(flow[c].status, flow[c].reason)
                     /\ << <<"!!! NOT FOUND !!!">> >> # Bodies(out[c]))
    /\ [][SetPayloadKept]_vars

\* the :before hook, the main handler and the :after hook all ran, none set
\* a payload, and the default response went out whole
C11_Witness ==
    \E c \in Conns :
        /\ pc[c] = "done"
        /\ Ran(c, "BEFORE") /\ Ran(c, "MAIN") /\ Ran(c, "AFTER")
        /\ SendAtRespond(c) = "unset"
        /\ Bodies(out[c]) = << <<"!!! NOT FOUND !!!">> >>
        /\ Last(out[c]) = Drain

\* C12: every status line written, on whatever path (the handler's
\* response, the default 404, the fixed 500), is an HTTP/1.0 status line
\* followed by headers among which is Connection: Close.
C12_ConnectionCloseAlways ==
    \A c \in Conns :
        \A k \in 1..Len(out[c]) :
            out[c][k].w = "status" =>
                /\ out[c][k].ver = "HTTP/1.0"
                /\ k < Len(out[c])
                /\ out[c][k + 1].w = "headers"
                /\ <<"Connection", "Close">> \in out[c][k + 1].tail

\* send_redirect was called on the Flow of c (nothing else sets Location)
Redirected(f) == \E h \in f.tail : h[1] = "Location"

\* C13: after send_redirect, no stage setting another payload, the request
\* counts as handled: the main handler is not called when the call was in
\* the :before hook, and the response has status 302 and the Location.
C13_RedirectHandled ==
    \A c \in Conns :
        /\ (pc[c] = "main" /\ Redirected(flow[c])) => StageExe("main", flow[c]) = 0
        /\ (Has(c, "RESPOND") /\ SendAtRespond(c) = "unset" /\ Redirected(flow[c])) =>
              /\ out[c][1].status = 302
              /\ <<"Location", "/x">> \in out[c][2].tail

\* the writes and completed drains a chunked response is made of: status
\* line, headers, (drain), cookies if any, blank line, then a drain before
\* and after every chunk
ChunkedShape(o, ck) ==
    LET head == <<"status", "headers", "drain">>
                    \o (IF ck = {} THEN <<>> ELSE <<"cookies">>) \o <<"blank">>
    IN  \A k \in 1..Len(o) :
            IF k <= Len(head) THEN o[k].w = head[k]
            ELSE o[k].w = (IF (k - Len(head)) % 2 = 1 THEN "drain" ELSE "body")

\* C14: a generator payload goes out as status line, headers, cookies, blank
\* line and then its chunks in the order the generator produced them, and
\* the drain after each chunk's write has been awaited before the next chunk
\* is taken and written: never two chunks written without a drain between.
C14_ChunksInOrderFlushed ==
    \A c \in Conns :
        (Has(c, "RESPOND") /\ flow[c].send \in Chunked) =>
            /\ ChunkedShape(out[c], flow[c].cookies)
            /\ Bodies(out[c]) = fin[c].made
            /\ \A k \in 1..(Len(out[c]) - 1) :
                  out[c][k].w = "body" => out[c][k + 1].w = "drain"

\* two different chunks went out after a cookie, and the generator then ended
C14_Witness ==
    \E c \in Conns :
        /\ pc[c] = "done"
        /\ flow[c].send \in Chunked
        /\ flow[c].cookies # {}
        /\ Len(fin[c].made) = 2
        /\ fin[c].made[1] # fin[c].made[2]
        /\ Bodies(out[c]) = fin[c].made
        /\ Last(out[c]) = Drain

\* the Content-Type the response of c went out with
HasCT(c, ctype) == Len(out[c]) >= 2 /\ <<"Content-Type", ctype>> \in out[c][2].tail

\* C18: a payload set through send_json goes out as compact JSON, object or
\* array alike, and one set through send_form goes out form-encoded.
C18_EncodingOfHelper ==
    \A c \in Conns :
        (Has(c, "RESPOND") /\ flow[c].send \in {"dict", "list"} /\ Bodies(out[c]) # <<>>) =>
            /\ HasCT(c, CT_json) => Bodies(out[c]) = << JsonDumps(flow[c].send, flow[c].obj) >>
            /\ HasCT(c, CT_form) => Bodies(out[c]) = << ParamEncode(<<>>, flow[c].obj) >>

(***************************************************************************)
(* Properties of the body accessors                                        *)
(***************************************************************************)
Cached == {"body", "form", "stream"}

\* C15 as stated: the body is read from the transport at most once per Flow.
C15_ReadOnceAsStated == \A c \in Conns : flow[c].nread <= 1

\* once recv is set no step changes it or reads the transport
CacheKept ==
    \A c \in Conns :
        flow[c].recv \in Cached =>
            /\ flow'[c].recv = flow[c].recv
            /\ flow'[c].nread = flow[c].nread

\* C15 amended: once an accessor has set recv (recv_bytes at once, recv_form
\* when its read has returned, recv_json when its read and its decoding have
\* succeeded), every later call of any accessor returns that value without
\* reading the transport; a call that raised before setting recv cached
\* nothing, and the next call reads the transport again.
C15_FirstCachedWins ==
    /\ [][CacheKept]_vars
    /\ [](\A c \in Conns :
            /\ flow[c].hit => flow[c].recv \in Cached
            /\ flow[c].recv \in {"body", "form", "reading", "readingf"} => flow[c].nread >= 1)

\* recv_json read the body and failed, recv_form read the transport again
\* and cached its result, and a later accessor call returned that
C15_Witness ==
    \E c \in Conns :
        /\ flow[c].nread = 2
        /\ flow[c].recv = "form"
        /\ flow[c].hit
        /\ pc[c] = "done"

(***************************************************************************)
(* Properties of error handling                                            *)
(***************************************************************************)
\* the error of c was raised by a hook or handler that had been called
RaisedInStage(c) ==
    \E k \in 2..Len(log[c]) :
        /\ log[c][k].ev = "E500"
        /\ log[c][k - 1].ev \in {"BEFORE", "MAIN", "AFTER"}
        /\ log[c][k - 1].func > 0

\* the fixed 500 response of c was written and its drain completed
Flushed500(c) ==
    /\ Len(out[c]) = Len(Resp500) + 1
    /\ SubSeq(out[c], 1, Len(Resp500)) = Resp500
    /\ Last(out[c]) = Drain

\* C16 as stated: an exception of any type raised in a hook or handler ends
\* the connection with the 500 response and one reported error; a
\* cancellation is not reported.
C16_AnyTypeReportedAsStated ==
    \A c \in Conns :
        (pc[c] = "done" /\ RaisedInStage(c) /\ Flushed500(c)) =>
            IF exc[c] = "CancelledError" THEN nrep[c] = 0 ELSE nrep[c] = 1

\* C16 amended: a malformed request line, a line or body over the limit, a
\* body that does not decode and an exception raised in a hook or handler
\* all get the fixed 500 response; the error is reported once, when the
\* drain of that response has completed, unless it is an OSError; an
\* OSError, a cancellation, and any error whose 500 response could not be
\* flushed (the drain failed or was cancelled) are not reported.
C16_ErrorsReported ==
    \A c \in Conns :
        (pc[c] \in {"closing", "done"} /\ exc[c] # "none") =>
            /\ n500[c] = 1
            /\ SubSeq(out[c], 1, Len(Resp500)) = Resp500
            /\ nrep[c] = (IF Flushed500(c) /\ exc[c] \notin {"OSError", "CancelledError"}
                          THEN 1 ELSE 0)

\* a handler asked for a body declared longer than the limit: 500 and one report
C16_Witness ==
    \E c \in Conns :
        /\ pc[c] = "done"
        /\ exc[c] = "MemoryError"
        /\ RaisedInStage(c)
        /\ Flushed500(c)
        /\ nrep[c] = 1

(***************************************************************************)
(* Properties of the codec                                                 *)
(***************************************************************************)
\* every % of b is followed by two hexadecimal digits
RECURSIVE WellFormed(_)
WellFormed(b) ==
    IF b = <<>> THEN TRUE
    ELSE IF Head(b) # B_pct THEN WellFormed(Tail(b))
    ELSE /\ Len(b) >= 3
         /\ HexDigit(b[2]) >= 0
         /\ HexDigit(b[3]) >= 0
         /\ WellFormed(SubSeq(b, 4, Len(b)))

\* the decoding the claim describes: + to space, %XX to the byte XX
RECURSIVE PlusPercentDecode(_)
PlusPercentDecode(b) ==
    IF b = <<>> THEN <<>>
    ELSE IF Head(b) = B_plus THEN <<B_space>> \o PlusPercentDecode(Tail(b))
    ELSE IF Head(b) = B_pct
         THEN <<16 * HexDigit(b[2]) + HexDigit(b[3])>> \o PlusPercentDecode(SubSeq(b, 4, Len(b)))
         ELSE <<Head(b)>> \o PlusPercentDecode(Tail(b))

\* C17: url_decode maps every plus sign to a space and every %XX to the byte
\* XX and leaves every other byte as it is.
C17_DecodePlusPercent ==
    (dec.st = "done" /\ WellFormed(dec.arg) /\ Utf8Decodes(PlusPercentDecode(dec.arg))) =>
        dec.ret = Decoded("none", PlusPercentDecode(dec.arg))

(***************************************************************************)
(* Properties of registration and of the connection ceiling                *)
(***************************************************************************)
\* C19: every registration call returns, whatever the table holds.
C19_RegistrationReturns == (regpc = "loop") ~> (regpc = "ready")

\* the steps of a refused connection, and its refusal, leave the counter alone
RefusedKeepsCounter ==
    \A c \in Conns :
        (seen'[c] = "above" /\ (pc'[c] # pc[c] \/ out'[c] # out[c])) => clnt' = clnt

\* C20: the counter never exceeds clients+1, whatever the interleaving; a
\* connection that arrives while the counter is above clients is closed
\* with no stage run, no byte written and the counter unchanged.
C20_CounterCeiling ==
    /\ [](/\ clnt <= clients + 1
          /\ \A c \in Conns :
                seen[c] = "above" =>
                    /\ out[c] = <<>>
                    /\ ~(Has(c, "PARSE") \/ Has(c, "BEFORE") \/ Has(c, "MAIN")
                            \/ Has(c, "AFTER") \/ Has(c, "RESPOND") \/ Has(c, "E500")))
    /\ [][RefusedKeepsCounter]_vars

\* the counter stands at clients+1, every counted connection is suspended in
\* its dispatch, and one more has just been refused and is being closed
C20_Witness ==
    /\ clnt = clients + 1
    /\ cur = 0
    /\ \E c \in Conns : seen[c] = "above" /\ pc[c] = "closing"
    /\ Cardinality({c \in Conns : pc[c] \in InTry}) = clients + 1

====
